---- MODULE Spec2Model ----
(***************************************************************************)
(* A model of the TwitchApi client of src/index.js: the constructor, the   *)
(* GET dispatcher (_get), the refresh protocol (_refresh, _validate,       *)
(* _getAppAccessToken), customRequest, the POST dispatcher (_post) and the  *)
(* query getUsers builds from its ids argument.                            *)
(*                                                                         *)
(* Every `await request(...)` is a scheduling point: a dispatch stops      *)
(* there and goes on when the HTTP response (or the rejection) arrives.    *)
(* The code between two awaits runs without interruption and is one step.  *)
(* What the server answers is an input, drawn from small sets.             *)
(***************************************************************************)
EXTENDS Integers, Sequences, FiniteSets, TLC

VARIABLES
    phase,            \* "new", "live", "failed" (constructor threw), "exited" (process.exit)
    isApp,            \* this.isApp
    access_token,     \* this.access_token
    refresh_token,    \* this.refresh_token
    refresh_attempts, \* this.refresh_attempts
    errL,             \* an "error" listener is registered
    refL,             \* a "refresh" listener is registered
    calls,            \* the dispatches in flight: the constructor's and the application's
    started,          \* history: number of dispatches the application has started
    readyCount,       \* history: number of "ready" notifications emitted
    nRefresh,         \* history: number of token refreshes _refresh has completed
    last,             \* history: what the most recent step received, sent and emitted
    ids,              \* the ids argument of the getUsers call whose query is studied
    query             \* the query getUsers has built from ids, once it has

vars == <<phase, isApp, access_token, refresh_token, refresh_attempts, errL, refL,
          calls, started, readyCount, nRefresh, last, ids, query>>

----------------------------------------------------------------------------
\* Bounds of the model.

\* Number of dispatches the application starts on the instance, one after the
\* other; each may overlap the constructor's initial fetch.
MaxCalls == 1

\* The history counters stop counting here.
MaxCount == 3

\* The longest string, in characters, given to getUsers as a single id.
MaxLen == 3

\* The longest list of ids given to getUsers.
MaxIds == 3

\* The two dispatches that may be in flight together: the constructor's initial
\* fetch and the application's current call.
InitCall == "init"
AppCall == "app"
Calls == {InitCall, AppCall}

Inc(n) == IF n < MaxCount THEN n + 1 ELSE n

----------------------------------------------------------------------------
\* Values.

\* JavaScript's undefined.
None == "<undefined>"

\* No getUsers call is under study; no query has been built.
NoArgument == [kind |-> "none", value |-> <<>>]
NoQuery == [built |-> FALSE, params |-> <<>>]

\* Access tokens the configuration may hold, and those the token endpoint issues.
ConfigAccessTokens == {None, "", "a0"}
IssuedAccessTokens == {None, "a1", "a2"}
ConfigRefreshTokens == {None, "r0"}
IssuedRefreshTokens == {None, "r/1"}

\* JavaScript truthiness of a string or undefined.
Truthy(v) == v # None /\ v # ""

\* encodeURIComponent on the refresh tokens of the model.
encodeURIComponent(t) ==
    CASE t = None -> "undefined"
      [] t = "r/1" -> "r%2F1"
      [] OTHER -> t

\* body.message of an API response, and whether /\bValid OAuth token with/i matches it.
GetMessages ==
    {None, "Invalid OAuth token", "Must provide a valid OAuth token with scope"}

\* A bug: the pattern without its i flag, /\bValid OAuth token with/.
MatchesTokenPattern_caseSensitive(m) == m \in {"Valid OAuth token with"}

MatchesTokenPattern(m) ==
    m \in {"Valid OAuth token with", "Must provide a valid OAuth token with scope"}

ValidateMessages == {None, "missing authorization token"}

GetStatuses == {200, 400, 401}
ValidateStatuses == {200, 401, 500}

\* What `await request(options)` yields. net "reject": the promise rejects.
\* form: response.body is JSON text, or an object (the HTTP client has parsed
\* the body already, as it does under json: true).
Resp(net, form, status, message, data, at, rt) ==
    [net |-> net, form |-> form, status |-> status, message |-> message,
     data |-> data, access_token |-> at, refresh_token |-> rt]

Rejected == Resp("reject", "text", 0, None, None, None, None)
NoResp == Resp("none", "text", 0, None, None, None, None)

Unparseable == {Resp("ok", "object", 200, None, None, None, None)}

GetResponses ==
    {Rejected} \cup Unparseable
    \cup {Resp("ok", "text", 200, None, d, None, None) : d \in {"b1", "nodata"}}
    \cup {Resp("ok", "text", 400, None, "e1", None, None)}
    \cup {Resp("ok", "text", 401, m, "e1", None, None) : m \in GetMessages \ {None}}

ValidateResponses ==
    {Rejected} \cup Unparseable
    \cup {Resp("ok", "text", s, None, None, None, None) : s \in ValidateStatuses}
    \cup {Resp("ok", "text", 200, "missing authorization token", None, None, None)}

\* The token endpoint, as _getAppAccessToken reads it (JSON.parse(response.body)).
AppTokenResponses ==
    {Rejected} \cup Unparseable
    \cup {Resp("ok", "text", 200, None, None, at, None) : at \in IssuedAccessTokens}

\* The token endpoint, as _refresh reads it (response.body, no parse).
TokenResponses ==
    {Rejected}
    \cup {Resp("ok", "text", 200, None, None, "a1", "r/1")}
    \cup {Resp("ok", "object", 200, None, None, at, rt) :
            at \in IssuedAccessTokens, rt \in IssuedRefreshTokens}

CustomResponses ==
    {Rejected} \cup Unparseable
    \cup {Resp("ok", "text", 200, None, "b1", None, None)}
    \cup {Resp("ok", "text", 400, None, "e1", None, None)}

\* What _post may receive. form "nested": response.body is the JSON text of a
\* string that is itself the JSON text of an object.
PostResponses ==
    {Rejected} \cup Unparseable
    \cup {Resp("ok", "text", 401, None, "e1", None, None)}
    \cup {Resp("ok", "nested", 200, None, "b1", None, None)}
    \cup {Resp("ok", "nested", s, None, "e1", None, None) : s \in {400, 401}}

\* JSON.parse(response.body) returns (on an object it throws).
JSONparses(r) == r.form = "text"

\* _post: both JSON.parse(response.body) and JSON.parse(body) return. The
\* second throws on the object the first returns for the JSON text of an object.
JSONparsesTwice(r) == r.form = "nested"

----------------------------------------------------------------------------
\* The conditions of the code.

\* A bug: the constructor does not check for conflicting options.
ConflictingAuth_unchecked(app, token) == FALSE

\* constructor: if(this.isApp && this.access_token)
ConflictingAuth(app, token) == app /\ Truthy(token)

\* _refresh: if(this.refresh_attempts > 1)
AttemptsExhausted(n) == n > 1

\* A bug: every status counts as a failure.
IsFailure_always(status) == status >= 200

\* A bug: > for >=, so that status 400 counts as a success.
IsFailure_strict(status) == status > 400

\* _get: if(status >= 400)
IsFailure(status) == status >= 400

\* A bug: only status 401 counts as an invalid token.
ValidFromStatus_not401(status) == status # 401

\* _validate: switch(response.statusCode)
ValidFromStatus(status) == status = 200

\* _validate: if(message === "missing authorization token")
MissingAuthorization(m) == m = "missing authorization token"

\* A bug: _refresh goes on to the token request although the token is valid.
SkipRefresh_never(valid) == FALSE

\* _refresh: if(valid) return;
SkipRefresh(valid) == valid

\* A bug: getCurrentUser does not check the mode.
CurrentUserForbidden_unchecked(app) == FALSE

\* getCurrentUser: if(this.isApp)
CurrentUserForbidden(app) == app

----------------------------------------------------------------------------
\* Dispatches.

\* pc: where the dispatch waits. nReq: requests it has sent to the API endpoint.
\* nTok: token requests it has sent. sentRT: the refresh_token in the request
\* body _refresh has built. startAT (history): access_token when it started.
\* via: "method" for a dispatch that an endpoint method or the constructor
\* started with the caller's callback; "subStatusIds" for the one that
\* getUsersSubStatus started through getCurrentUser(user_ids) with truthy
\* user_ids, which _get holds as its callback; "subStatusNoIds" for the one it
\* started with falsy user_ids and awaits.
IdleCall ==
    [pc |-> "idle", nReq |-> 0, nTok |-> 0, sentRT |-> None, startAT |-> None,
     via |-> "method"]

\* A dispatch that has ended keeps nothing: its locals are gone.
DoneCall == [IdleCall EXCEPT !.pc = "done"]

InFlight(call) == call.pc \notin {"idle", "done"}

\* A dispatch whose promise nobody holds: _get called with a callback is not
\* awaited by the endpoint method, and the constructor drops the promise.
\* customRequest awaits its request itself, and the promise of _post is in
\* the hands of its caller. Whether the caller gave a callback is read when
\* the dispatch ends, and that is where the model draws it.
Floating(call, cb) == cb /\ call.pc \notin {"cust_wait", "post_wait"}

\* The constructor always passes a callback; getUsersSubStatus passes its
\* user_ids in the place of the callback.
Styles(c) ==
    IF c = InitCall \/ calls[c].via = "subStatusIds" THEN {TRUE}
    ELSE IF calls[c].via = "subStatusNoIds" THEN {FALSE}
    ELSE BOOLEAN

\* The record of a step: the dispatch, the code that ran, the response it
\* received, the requests it sent, the notifications it emitted, whether it
\* wrote to the console, and how the dispatch ended, if it did ("error",
\* "returned", "callback") with which body.
Step(c, op, r, sent, emitted, logged, outcome, body) ==
    [call |-> c, op |-> op, resp |-> r, sent |-> sent, emitted |-> emitted,
     logged |-> logged, outcome |-> outcome, body |-> body]

\* The config objects of the model: an app-mode config carries no refresh token.
Configs ==
    {[isApp |-> TRUE, access_token |-> at, refresh_token |-> None] :
        at \in ConfigAccessTokens}
    \cup {[isApp |-> FALSE, access_token |-> "a0", refresh_token |-> rt] :
        rt \in ConfigRefreshTokens}

Init ==
    /\ phase = "new"
    /\ \E config \in Configs :
          /\ isApp = config.isApp
          /\ access_token = config.access_token
          /\ refresh_token = config.refresh_token
    /\ started = 0
    /\ refresh_attempts = 0
    /\ errL \in BOOLEAN
    /\ refL \in BOOLEAN
    /\ calls = [c \in Calls |-> IdleCall]
    /\ readyCount = 0
    /\ nRefresh = 0
    /\ last = Step(InitCall, "none", NoResp, <<>>, {}, FALSE, "none", None)
    /\ ids = NoArgument
    /\ query = NoQuery

----------------------------------------------------------------------------
\* Helpers of the steps.

\* The state after one step of dispatch c.
Update(c, call, at, rt, ra, ph, nr, step) ==
    /\ calls' = [calls EXCEPT ![c] = call]
    /\ access_token' = at
    /\ refresh_token' = rt
    /\ refresh_attempts' = ra
    /\ phase' = ph
    /\ readyCount' = IF "ready" \in step.emitted THEN Inc(readyCount) ELSE readyCount
    /\ nRefresh' = nr
    /\ last' = step
    /\ UNCHANGED <<isApp, errL, refL, started, ids, query>>

\* A step that changes neither the tokens nor the counters.
Quiet(c, call, ph, step) ==
    Update(c, call, access_token, refresh_token, refresh_attempts, ph, nRefresh, step)

\* _error: throw new Error(err). The dispatch ends; a rejection nobody handles
\* reaches process.on("unhandledRejection"), which writes the error to the
\* console and ends the process.
Throw(c, op, r, emitted, logged) ==
    \E cb \in Styles(c) :
        Quiet(c, DoneCall, IF Floating(calls[c], cb) THEN "exited" ELSE phase,
              Step(c, op, r, <<>>, emitted, logged \/ Floating(calls[c], cb),
                   "error", None))

\* _get up to its first await: the request to the endpoint is issued. The
\* locals of a _refresh that has returned are gone.
SendGet(call) == [call EXCEPT !.pc = "get_wait", !.nReq = Inc(@), !.sentRT = None]

\* if(callback) callback(body, response); else return body;
Delivery(cb) == IF cb THEN "callback" ELSE "returned"

\* The dispatch ends and hands over the body.
Deliver(c, op, r, emitted, logged) ==
    \E cb \in Styles(c) :
        Quiet(c, DoneCall, phase,
              Step(c, op, r, <<>>, emitted, logged, Delivery(cb), r.data))

\* A dispatch as it starts.
NewCall == [IdleCall EXCEPT !.startAT = access_token]

\* The application starts a call when its previous one has ended.
MayStart ==
    /\ phase = "live"
    /\ calls[AppCall].pc \in {"idle", "done"}
    /\ started < MaxCalls

\* The state after the application has called a method.
Begin(call, step) ==
    /\ calls' = [calls EXCEPT ![AppCall] = call]
    /\ started' = started + 1
    /\ last' = step
    /\ UNCHANGED <<phase, isApp, access_token, refresh_token, refresh_attempts,
                   errL, refL, readyCount, nRefresh, ids, query>>

----------------------------------------------------------------------------
\* constructor

Construct ==
    /\ phase = "new"
    /\ IF ConflictingAuth(isApp, access_token)
       THEN Quiet(InitCall, calls[InitCall], "failed",
                  Step(InitCall, "construct", NoResp, <<>>, {}, FALSE, "error", None))
       ELSE IF isApp
       THEN Quiet(InitCall, [NewCall EXCEPT !.pc = "init_wait"], "live",
                  Step(InitCall, "construct", NoResp, <<"TOKEN_CC">>, {}, FALSE,
                       "none", None))
       ELSE Quiet(InitCall, SendGet(NewCall), "live",
                  Step(InitCall, "construct", NoResp, <<"GET">>, {}, FALSE,
                       "none", None))

\* The constructor's callback of _getAppAccessToken.
OnInitTokenResponse(r) ==
    /\ phase = "live"
    /\ calls[InitCall].pc = "init_wait"
    /\ IF r.net = "reject" \/ ~JSONparses(r)
       THEN Throw(InitCall, "inittoken", r, {}, FALSE)
       ELSE Update(InitCall, DoneCall,
                   r.access_token, refresh_token, refresh_attempts, phase, nRefresh,
                   Step(InitCall, "inittoken", r, <<>>, {"ready"}, FALSE,
                        "callback", None))

----------------------------------------------------------------------------
\* The endpoint methods.

\* getUsers, getStreams, getFollows, getSubsById, getBitsLeaderboard: build the
\* query and call _get.
StartGet ==
    /\ MayStart
    /\ Begin(SendGet(NewCall),
             Step(AppCall, "getUsers", NoResp, <<"GET">>, {}, FALSE, "none", None))

StartCurrentUser ==
    /\ MayStart
    /\ IF CurrentUserForbidden(isApp)
       THEN Begin(DoneCall,
                  Step(AppCall, "getCurrentUser", NoResp, <<>>, {}, FALSE,
                       "error", None))
       ELSE Begin(SendGet(NewCall),
                  Step(AppCall, "getCurrentUser", NoResp, <<"GET">>, {}, FALSE,
                       "none", None))

\* The user_ids of the model: none given, or an id (a list of ids is truthy
\* as well).
UserIds == {None, "123"}

\* getUsersSubStatus: `let user = await this.getCurrentUser(user_ids)` hands
\* user_ids to getCurrentUser as its callback. In app mode getCurrentUser
\* throws. With truthy user_ids getCurrentUser calls _get without awaiting it
\* and returns, and the next statement, `user = body.data[0]`, throws a
\* ReferenceError (no `body` is in scope): the method has failed while its
\* request is pending. With falsy user_ids the method awaits the dispatch.
StartUsersSubStatus(user_ids) ==
    /\ MayStart
    /\ IF CurrentUserForbidden(isApp)
       THEN Begin(DoneCall,
                  Step(AppCall, "getUsersSubStatus", NoResp, <<>>, {}, FALSE,
                       "error", None))
       ELSE IF Truthy(user_ids)
       THEN Begin(SendGet([NewCall EXCEPT !.via = "subStatusIds"]),
                  Step(AppCall, "getUsersSubStatus", NoResp, <<"GET">>, {}, FALSE,
                       "error", None))
       ELSE Begin(SendGet([NewCall EXCEPT !.via = "subStatusNoIds"]),
                  Step(AppCall, "getUsersSubStatus", NoResp, <<"GET">>, {}, FALSE,
                       "none", None))

----------------------------------------------------------------------------
\* _get, from the response on.

\* The constructor's callback of getCurrentUser reads body.data[0].
ReadyCallbackThrows(c, r) == c = InitCall /\ r.data = "nodata"

\* The dispatch of getUsersSubStatus that receives a status < 400: _get calls
\* callback(body, response) with user_ids as the callback, a TypeError; or,
\* without user_ids, _get returns the body and getUsersSubStatus goes on to
\* `user = body.data[0]`, a ReferenceError.
SubStatusThrows(call) == call.via \in {"subStatusIds", "subStatusNoIds"}

OnGetResponse(c, r) ==
    /\ phase = "live"
    /\ calls[c].pc = "get_wait"
    /\ LET failed == IsFailure(r.status)
           emitted == IF errL THEN {"error"} ELSE {}
       IN  IF r.net = "reject" \/ ~JSONparses(r)
           THEN Throw(c, "get", r, {}, FALSE)
           ELSE IF failed /\ MatchesTokenPattern(r.message)
           THEN Throw(c, "get", r, {}, FALSE)
           ELSE IF failed /\ AttemptsExhausted(refresh_attempts)
           THEN Throw(c, "get", r, emitted, TRUE)
           ELSE IF failed
           THEN Quiet(c, [calls[c] EXCEPT !.pc = "val_wait",
                              !.sentRT = encodeURIComponent(refresh_token)],
                      phase,
                      Step(c, "get", r, <<"VALIDATE">>, emitted, TRUE, "none", None))
           ELSE IF ReadyCallbackThrows(c, r) \/ SubStatusThrows(calls[c])
           THEN Throw(c, "get", r, {}, FALSE)
           ELSE Deliver(c, "get", r, IF c = InitCall THEN {"ready"} ELSE {}, FALSE)

----------------------------------------------------------------------------
\* _refresh, from the response of _validate on.

OnValidateResponse(c, r) ==
    /\ phase = "live"
    /\ calls[c].pc = "val_wait"
    /\ IF r.net = "reject" \/ ~JSONparses(r) \/ MissingAuthorization(r.message)
       THEN Throw(c, "validate", r, {}, FALSE)
       ELSE IF SkipRefresh(ValidFromStatus(r.status))
       THEN Quiet(c, SendGet(calls[c]), phase,
                  Step(c, "validate", r, <<"GET">>, {}, FALSE, "none", None))
       ELSE Quiet(c, [calls[c] EXCEPT !.pc = IF isApp THEN "app_wait" ELSE "tok_wait",
                                      !.nTok = Inc(@)],
                  phase,
                  Step(c, "validate", r,
                       IF isApp THEN <<"TOKEN_CC">> ELSE <<"TOKEN_RT">>, {}, FALSE,
                       "none", None))

\* App mode: result = await this._getAppAccessToken()
OnAppTokenResponse(c, r) ==
    /\ phase = "live"
    /\ calls[c].pc = "app_wait"
    /\ IF r.net = "reject" \/ ~JSONparses(r)
       THEN Throw(c, "apptoken", r, {}, FALSE)
       ELSE Update(c, SendGet(calls[c]),
                   r.access_token, refresh_token, refresh_attempts, phase,
                   Inc(nRefresh),
                   Step(c, "apptoken", r, <<"GET">>, {"refresh"}, FALSE,
                        "none", None))

\* A field of response.body, which _refresh does not parse.
BodyField(r, v) == IF r.form = "object" THEN v ELSE None

\* A bug: the token received is not stored.
Overwrite_dropped(current, received) == current

\* A bug: only the first token received replaces the configured one; the
\* tokens of later responses are dropped.
Overwrite_firstWins(current, received) ==
    IF Truthy(received) /\ current \in ConfigAccessTokens \cup ConfigRefreshTokens
    THEN received ELSE current

\* if(access_token) this.access_token = access_token; and the same for
\* refresh_token.
Overwrite(current, received) == IF Truthy(received) THEN received ELSE current

\* User mode: response = await request(options)
OnTokenResponse(c, r) ==
    /\ phase = "live"
    /\ calls[c].pc = "tok_wait"
    /\ IF r.net = "reject"
       THEN Throw(c, "token", r, {}, FALSE)
       ELSE LET at == BodyField(r, r.access_token)
                rt == BodyField(r, r.refresh_token)
            IN  Update(c, SendGet(calls[c]),
                       Overwrite(access_token, at),
                       Overwrite(refresh_token, rt),
                       refresh_attempts + 1, phase, Inc(nRefresh),
                       Step(c, "token", r, <<"GET">>,
                            IF refL THEN {"refresh"} ELSE {}, FALSE, "none", None))

----------------------------------------------------------------------------
\* customRequest

Endpoints == {None, "", "games", "/games"}
OptionKinds == {"undefined", "object", "string"}

\* typeof endpoint !== "string" || endpoint === "" || !endpoint
NoEndpoint(e) == e = None \/ e = ""

\* if(!options) options = {}; if(typeof options !== "object")
BadOptions(o) == o = "string"

StartCustom(e, o) ==
    /\ MayStart
    /\ IF NoEndpoint(e) \/ BadOptions(o)
       THEN Begin(DoneCall,
                  Step(AppCall, "customRequest", NoResp, <<>>, {}, FALSE,
                       "error", None))
       ELSE Begin([NewCall EXCEPT !.pc = "cust_wait", !.nReq = Inc(@)],
                  Step(AppCall, "customRequest", NoResp, <<"CUSTOM">>, {}, FALSE,
                       "none", None))

\* A bug: customRequest handles a failure as _get does, with the refresh
\* protocol and a retry.
OnCustomResponse_refreshing(c, r) ==
    /\ phase = "live"
    /\ calls[c].pc = "cust_wait"
    /\ IF r.net = "reject" \/ ~JSONparses(r)
       THEN Throw(c, "custom", r, {}, FALSE)
       ELSE IF IsFailure(r.status)
       THEN Quiet(c, [calls[c] EXCEPT !.pc = "val_wait",
                          !.sentRT = encodeURIComponent(refresh_token)],
                  phase,
                  Step(c, "custom", r, <<"VALIDATE">>, {}, TRUE, "none", None))
       ELSE Deliver(c, "custom", r, {}, FALSE)

OnCustomResponse(c, r) ==
    /\ phase = "live"
    /\ calls[c].pc = "cust_wait"
    /\ IF r.net = "reject" \/ ~JSONparses(r)
       THEN Throw(c, "custom", r, {}, FALSE)
       ELSE Deliver(c, "custom", r, {}, IsFailure(r.status))

----------------------------------------------------------------------------
\* _post. No method of the class calls it; the application does.

StartPost ==
    /\ MayStart
    /\ Begin([NewCall EXCEPT !.pc = "post_wait", !.nReq = Inc(@)],
             Step(AppCall, "_post", NoResp, <<"POST">>, {}, FALSE, "none", None))

\* this.emit("error", err_obj), called whether or not a listener is
\* registered: without one, emit throws.
EmitThrows(listening) == ~listening

\* if(status === 401) this.refresh_token(() => {...}): refresh_token holds a
\* string or undefined, and calling it throws a TypeError.
OnPostResponse(c, r) ==
    /\ phase = "live"
    /\ calls[c].pc = "post_wait"
    /\ IF r.net = "reject" \/ ~JSONparsesTwice(r)
       THEN Throw(c, "post", r, {}, FALSE)
       ELSE IF IsFailure(r.status) /\ EmitThrows(errL)
       THEN Throw(c, "post", r, {}, TRUE)
       ELSE IF r.status = 401
       THEN Throw(c, "post", r, {"error"}, TRUE)
       ELSE Deliver(c, "post", r, IF IsFailure(r.status) THEN {"error"} ELSE {},
                    IsFailure(r.status))

----------------------------------------------------------------------------

Next ==
    \/ Construct
    \/ \E r \in AppTokenResponses : OnInitTokenResponse(r)
    \/ StartGet
    \/ StartCurrentUser
    \/ \E user_ids \in UserIds : StartUsersSubStatus(user_ids)
    \/ \E e \in Endpoints, o \in OptionKinds : StartCustom(e, o)
    \/ \E c \in Calls, r \in GetResponses : OnGetResponse(c, r)
    \/ \E c \in Calls, r \in ValidateResponses :
          OnValidateResponse(c, r)
    \/ \E c \in Calls, r \in AppTokenResponses :
          OnAppTokenResponse(c, r)
    \/ \E c \in Calls, r \in TokenResponses : OnTokenResponse(c, r)
    \/ \E c \in Calls, r \in CustomResponses : OnCustomResponse(c, r)
    \/ StartPost
    \/ \E c \in Calls, r \in PostResponses : OnPostResponse(c, r)

Spec == Init /\ [][Next]_vars

\* The responses the server owes arrive: every pending request of a live
\* process is answered (or fails) in the end. Which answer is the server's choice.
Answered(c) ==
    \/ \E r \in GetResponses : OnGetResponse(c, r)
    \/ \E r \in ValidateResponses : OnValidateResponse(c, r)
    \/ \E r \in AppTokenResponses : OnAppTokenResponse(c, r)
    \/ \E r \in TokenResponses : OnTokenResponse(c, r)
    \/ \E r \in CustomResponses : OnCustomResponse(c, r)
    \/ \E r \in PostResponses : OnPostResponse(c, r)
    \/ \E r \in AppTokenResponses : c = InitCall /\ OnInitTokenResponse(r)

FairSpec == Spec /\ \A c \in Calls : WF_vars(Answered(c))

----------------------------------------------------------------------------
\* getUsers: the query built from the ids argument. A string is the sequence
\* of its characters; a query is the sequence of its parameters, each with the
\* separator written before it, its name and its value.

\* The characters of the model: digits, letters (of which a and e are
\* hexadecimal digits, e the exponent mark, x the mark of a hexadecimal
\* literal), a sign, the decimal point and white space (space and tab).
Chars == {"0", "1", "a", "x", "e", "-", ".", " ", "\t"}

RECURSIVE SeqsOfLen(_, _)
SeqsOfLen(S, n) ==
    IF n = 0 THEN {<<>>}
    ELSE {Append(s, x) : s \in SeqsOfLen(S, n - 1), x \in S}

SeqsUpTo(S, n) == UNION {SeqsOfLen(S, k) : k \in 0..n}

\* The arguments of the model: a single string, or a list of one-character
\* strings.
UserArguments ==
    {[kind |-> "string", value |-> s] : s \in SeqsUpTo(Chars, MaxLen)}
    \cup {[kind |-> "list", value |-> l] : l \in SeqsUpTo(SeqsOfLen(Chars, 1), MaxIds)}

\* isNaN(string) is Number(string) being NaN: the string is no
\* StringNumericLiteral of ECMAScript (StringToNumber). WhiteSpace is
\* StrWhiteSpaceChar: the white space and line terminator characters, those
\* without a printable form written by their code point.
WhiteSpace ==
    {" ", "\t", "\n", "\r", "\f", "U+000B", "U+00A0", "U+FEFF", "U+2028", "U+2029",
     "U+1680", "U+2000", "U+2001", "U+2002", "U+2003", "U+2004", "U+2005",
     "U+2006", "U+2007", "U+2008", "U+2009", "U+200A", "U+202F", "U+205F",
     "U+3000"}
DecimalDigits == {"0", "1", "2", "3", "4", "5", "6", "7", "8", "9"}
HexDigits == DecimalDigits \cup {"a", "b", "c", "d", "e", "f", "A", "B", "C", "D", "E", "F"}
OctalDigits == {"0", "1", "2", "3", "4", "5", "6", "7"}
BinaryDigits == {"0", "1"}
Infinity == <<"I", "n", "f", "i", "n", "i", "t", "y">>

RECURSIVE TrimStart(_)
TrimStart(s) == IF s # <<>> /\ Head(s) \in WhiteSpace THEN TrimStart(Tail(s)) ELSE s

RECURSIVE TrimEnd(_)
TrimEnd(s) ==
    IF s # <<>> /\ s[Len(s)] \in WhiteSpace THEN TrimEnd(SubSeq(s, 1, Len(s) - 1)) ELSE s

AllIn(s, S) == \A i \in 1..Len(s) : s[i] \in S

\* DecimalDigits, one at least.
Digits(s) == s # <<>> /\ AllIn(s, DecimalDigits)

\* The string without its leading sign, if it has one.
Unsigned(s) == IF s # <<>> /\ Head(s) \in {"+", "-"} THEN Tail(s) ELSE s

\* ExponentPart: e or E, an optional sign, digits.
ExponentPart(s) == s # <<>> /\ Head(s) \in {"e", "E"} /\ Digits(Unsigned(Tail(s)))

\* StrUnsignedDecimalLiteral: Infinity, or digits with an optional fraction,
\* or a fraction alone, each with an optional exponent.
StrUnsignedDecimalLiteral(s) ==
    \/ s = Infinity
    \/ \E i \in 0..Len(s), j \in 0..Len(s) :
          /\ i <= j
          /\ LET int == SubSeq(s, 1, i)
                 frac == SubSeq(s, i + 1, j)
                 exp == SubSeq(s, j + 1, Len(s))
             IN  /\ AllIn(int, DecimalDigits)
                 /\ frac = <<>> \/ (Head(frac) = "." /\ AllIn(Tail(frac), DecimalDigits))
                 /\ int # <<>> \/ Len(frac) > 1
                 /\ exp = <<>> \/ ExponentPart(exp)

\* NonDecimalIntegerLiteral: 0x, 0o or 0b and digits of that base; no sign.
NonDecimalIntegerLiteral(s) ==
    /\ Len(s) >= 3
    /\ s[1] = "0"
    /\ LET rest == SubSeq(s, 3, Len(s))
       IN  \/ s[2] \in {"x", "X"} /\ AllIn(rest, HexDigits)
           \/ s[2] \in {"o", "O"} /\ AllIn(rest, OctalDigits)
           \/ s[2] \in {"b", "B"} /\ AllIn(rest, BinaryDigits)

\* StringNumericLiteral: white space around nothing (the number 0) or around
\* a literal.
StringNumericLiteral(s) ==
    LET t == TrimEnd(TrimStart(s))
    IN  \/ t = <<>>
        \/ NonDecimalIntegerLiteral(t)
        \/ StrUnsignedDecimalLiteral(Unsigned(t))

isNaN(s) == ~StringNumericLiteral(s)

\* let type = isNaN(id) ? "login" : "id";
ParamType(id) == IF isNaN(id) THEN "login" ELSE "id"

\* `?${type}=${id}` or `&${type}=${id}`
Param(sep, id) == [sep |-> sep, type |-> ParamType(id), value |-> id]

\* ids.indexOf(id): the index, from 0, of the first element equal to id.
indexOf(list, id) ==
    IF \E i \in 1..Len(list) : list[i] = id
    THEN (CHOOSE i \in 1..Len(list) :
              list[i] = id /\ \A j \in 1..(i - 1) : list[j] # id) - 1
    ELSE -1

\* The query of getUsers(ids).
UsersQuery(arg) ==
    IF arg.kind = "string"
    THEN <<Param("?", arg.value)>>
    ELSE [i \in 1..Len(arg.value) |->
             Param(IF indexOf(arg.value, arg.value[i]) = 0 THEN "?" ELSE "&",
                   arg.value[i])]

\* A live user-mode instance on which the application calls getUsers(ids).
QueryInit ==
    /\ ids \in UserArguments
    /\ query = NoQuery
    /\ phase = "live"
    /\ isApp = FALSE
    /\ access_token = "a0"
    /\ refresh_token = "r0"
    /\ refresh_attempts = 0
    /\ errL = FALSE
    /\ refL = FALSE
    /\ calls = [c \in Calls |-> IF c = InitCall THEN DoneCall ELSE IdleCall]
    /\ started = 0
    /\ readyCount = 1
    /\ nRefresh = 0
    /\ last = Step(InitCall, "get", Resp("ok", "text", 200, None, "b1", None, None),
                   <<>>, {"ready"}, FALSE, "callback", "b1")

\* getUsers up to `const endpoint = "/users"+query`.
BuildUsersQuery ==
    /\ ~query.built
    /\ query' = [built |-> TRUE, params |-> UsersQuery(ids)]
    /\ UNCHANGED <<phase, isApp, access_token, refresh_token, refresh_attempts,
                   errL, refL, calls, started, readyCount, nRefresh, last, ids>>

QueryNext == BuildUsersQuery

QuerySpec == QueryInit /\ [][QueryNext]_vars

----------------------------------------------------------------------------
\* Vocabulary of the properties.

\* Dispatch c handles, in this step, the response it waited for at pc.
Handles(c, pc, op) == calls[c].pc = pc /\ last'.call = c /\ last'.op = op

\* The response of the step was received and its body parsed.
Parsed(r) == r.net = "ok" /\ r.form = "text"

TokenRequests == {"TOKEN_CC", "TOKEN_RT"}

Sends(step, kinds) == \E i \in 1..Len(step.sent) : step.sent[i] \in kinds

CredentialsUnchanged == UNCHANGED <<access_token, refresh_token, refresh_attempts>>

Pending(c) == phase = "live" /\ InFlight(calls[c])

----------------------------------------------------------------------------
\* C1: a GET dispatch requests its endpoint at most twice, the original
\* request and one retry.
C1_AtMostTwoRequests == \A c \in Calls : calls[c].nReq <= 2

\* C2: an instance performs at most two token refreshes over its lifetime.
C2_AtMostTwoRefreshes == nRefresh <= 2

\* C3: when the validator reports the token valid (status 200, no "missing
\* authorization token" message), the refresh protocol sends no token request,
\* emits no "refresh", and leaves access_token, refresh_token and
\* refresh_attempts as they were.
C3_ValidTokenNoRefresh ==
    [][\A c \in Calls :
          (/\ Handles(c, "val_wait", "validate")
           /\ Parsed(last'.resp)
           /\ last'.resp.status = 200
           /\ last'.resp.message # "missing authorization token")
          => /\ ~Sends(last', TokenRequests)
             /\ "refresh" \notin last'.emitted
             /\ calls'[c].nTok = calls[c].nTok
             /\ nRefresh' = nRefresh
             /\ CredentialsUnchanged]_vars

C3_Witness ==
    /\ last.op = "validate"
    /\ Parsed(last.resp)
    /\ last.resp.status = 200
    /\ last.sent = <<"GET">>
    /\ calls[last.call].pc = "get_wait"

\* C4: every dispatch in flight completes in the end, whatever the server
\* answers.
C4_EveryDispatchCompletes == \A c \in Calls : Pending(c) ~> ~Pending(c)

\* C5: a dispatch that has sent its endpoint two requests and the token
\* endpoint one, whose token response carried an access token other than the
\* one held when the dispatch started, and which now receives a status-200
\* response to the retry, sends nothing more, hands over the body of that
\* second response, and leaves the instance with an access_token that differs
\* from the one held when the dispatch started. (The 200 response is handled
\* right after the token response; the first response is any status >= 400,
\* of which the claim's 401 is one.)
C5_RefreshOnceThenDeliver ==
    [][\A c \in Calls :
          (/\ Handles(c, "get_wait", "get")
           /\ Parsed(last'.resp)
           /\ last'.resp.status = 200
           /\ last'.resp.data # "nodata"
           /\ last.call = c
           /\ last.op \in {"token", "apptoken"}
           /\ last.resp.net = "ok"
           /\ last.resp.form = (IF last.op = "token" THEN "object" ELSE "text")
           /\ last.resp.access_token \notin {None, "", calls[c].startAT}
           /\ calls[c].nReq = 2)
          => /\ calls[c].nTok = 1
             /\ last'.sent = <<>>
             /\ last'.outcome \in {"returned", "callback"}
             /\ last'.body = last'.resp.data
             /\ access_token' = last.resp.access_token
             /\ access_token' # calls[c].startAT]_vars

C5_Witness ==
    /\ last.op = "get"
    /\ last.call = AppCall
    /\ last.resp.status = 200
    /\ last.outcome = "returned"
    /\ last.body = "b1"
    /\ nRefresh = 1
    /\ access_token = "a1"
    /\ started = 1
    /\ calls[InitCall].pc = "done"

\* C6: a response with status < 400 is handed over as it is: its parsed body
\* is returned or passed to the callback, no validation request, token request
\* or retry is sent, no "error" or "refresh" is emitted, and access_token,
\* refresh_token and refresh_attempts stay as they were.
C6_SuccessIsDelivered ==
    [][\A c \in Calls :
          (/\ Handles(c, "get_wait", "get")
           /\ Parsed(last'.resp)
           /\ last'.resp.status < 400)
          => /\ last'.sent = <<>>
             /\ last'.emitted \cap {"error", "refresh"} = {}
             /\ CredentialsUnchanged
             /\ nRefresh' = nRefresh
             /\ calls'[c].pc = "done"
             /\ \/ c = InitCall /\ last'.resp.data = "nodata"
                \/ /\ last'.outcome \in {"returned", "callback"}
                   /\ last'.body = last'.resp.data]_vars

C6_Witness ==
    /\ last.op = "get"
    /\ last.call = AppCall
    /\ last.resp.status = 200
    /\ last.outcome = "callback"
    /\ last.body = "b1"

\* C7: constructing with isApp true and an access_token supplied (a non-empty
\* string) throws in the constructor: no request is sent, no dispatch starts
\* and "ready" is never emitted.
C7_ConflictingAuthFails ==
    /\ [][(phase = "new" /\ isApp /\ access_token \notin {None, ""} /\ phase' # "new")
          => (phase' = "failed" /\ last'.outcome = "error" /\ last'.sent = <<>>)]_vars
    /\ [](phase = "failed"
          => /\ readyCount = 0
             /\ last.sent = <<>>
             /\ \A c \in Calls : calls[c].pc = "idle")

C7_Witness == phase = "failed" /\ isApp /\ access_token = "a0"

\* C8: on an app-mode instance getCurrentUser fails at once, called by the
\* application or by getUsersSubStatus with its user_ids as the argument: it
\* sends no request and leaves access_token, refresh_token and
\* refresh_attempts as they were.
C8_AppModeCurrentUserFails ==
    [][(/\ isApp
        /\ started' # started
        /\ last'.op \in {"getCurrentUser", "getUsersSubStatus"})
       => /\ last'.outcome = "error"
          /\ last'.sent = <<>>
          /\ calls'[AppCall].pc = "done"
          /\ CredentialsUnchanged]_vars

C8_Witness ==
    /\ isApp
    /\ last.op = "getCurrentUser"
    /\ last.outcome = "error"
    /\ phase = "live"

\* C9: "ready" is emitted at most once, and only by the step that handles the
\* response to the constructor's initial fetch: the token response in app mode,
\* a profile response with status < 400 in user mode.
C9_ReadyOnceAfterInitialFetch ==
    /\ [](readyCount <= 1)
    /\ [][(readyCount' # readyCount \/ ("ready" \in last'.emitted /\ last' # last))
          => /\ readyCount = 0
             /\ last'.call = InitCall
             /\ Parsed(last'.resp)
             /\ \/ isApp /\ Handles(InitCall, "init_wait", "inittoken")
                \/ /\ ~isApp
                   /\ Handles(InitCall, "get_wait", "get")
                   /\ last'.resp.status < 400]_vars

\* "ready" after the initial GET went through refresh and retry.
C9_Witness ==
    /\ readyCount = 1
    /\ ~isApp
    /\ nRefresh = 1
    /\ last.call = InitCall
    /\ "ready" \in last.emitted

\* C10: customRequest sends one request. Whatever the status of the response,
\* it sends no validation request, token request or retry, emits nothing,
\* leaves access_token, refresh_token and refresh_attempts as they were, and
\* hands over the parsed body.
C10_CustomRequestNoRefresh ==
    /\ [](\A c \in Calls : calls[c].pc = "cust_wait" => calls[c].nReq = 1)
    /\ [][\A c \in Calls :
             (Handles(c, "cust_wait", "custom") /\ Parsed(last'.resp))
             => /\ last'.sent = <<>>
                /\ last'.emitted = {}
                /\ CredentialsUnchanged
                /\ nRefresh' = nRefresh
                /\ calls'[c].pc = "done"
                /\ last'.outcome \in {"returned", "callback"}
                /\ last'.body = last'.resp.data]_vars

C10_Witness ==
    /\ last.op = "custom"
    /\ last.resp.status = 400
    /\ last.outcome = "returned"
    /\ last.body = "e1"
    /\ last.logged

\* C11: the query getUsers builds from a list of ids, repeated elements
\* included, has one parameter per element, in the order of the list; the
\* first is written after "?" and every later one after "&".
C11_ListQueryInOrder ==
    (query.built /\ ids.kind = "list")
    => /\ Len(query.params) = Len(ids.value)
       /\ \A i \in 1..Len(ids.value) :
             /\ query.params[i].value = ids.value[i]
             /\ query.params[i].sep = (IF i = 1 THEN "?" ELSE "&")

\* C12: every GET response with status >= 400 is written to the console by
\* the step that handles it, with or without an "error" listener and whatever
\* its message, a message matching the token pattern included.
C12_EveryFailureIsLogged ==
    [][\A c \in Calls :
          (/\ Handles(c, "get_wait", "get")
           /\ Parsed(last'.resp)
           /\ last'.resp.status >= 400)
          => last'.logged]_vars

\* C13: a GET response with status >= 400 whose message matches the token
\* pattern ends the dispatch with an error: no validation request, no token
\* request and no retry is sent, and access_token, refresh_token and
\* refresh_attempts stay as they were.
C13_TokenPatternIsFatal ==
    [][\A c \in Calls :
          (/\ Handles(c, "get_wait", "get")
           /\ Parsed(last'.resp)
           /\ last'.resp.status >= 400
           /\ last'.resp.message = "Must provide a valid OAuth token with scope")
          => /\ last'.outcome = "error"
             /\ last'.sent = <<>>
             /\ calls'[c].pc = "done"
             /\ nRefresh' = nRefresh
             /\ CredentialsUnchanged]_vars

C13_Witness ==
    /\ last.op = "get"
    /\ last.call = AppCall
    /\ last.resp.status = 401
    /\ last.resp.message = "Must provide a valid OAuth token with scope"
    /\ last.outcome = "error"
    /\ last.sent = <<>>
    /\ phase = "live"

\* C14: the query getUsers builds from a single string names its parameter
\* "id" exactly when the string consists of decimal digits only (one at
\* least), and "login" for every other string: the empty string and strings
\* with white space, a sign, a decimal point, an exponent or a hexadecimal
\* prefix included.
C14_IdOnlyForDecimalDigits ==
    (query.built /\ ids.kind = "string")
    => /\ Len(query.params) = 1
       /\ query.params[1].type =
             (IF /\ ids.value # <<>>
                 /\ \A i \in 1..Len(ids.value) :
                       ids.value[i] \in {"0", "1", "2", "3", "4", "5", "6", "7", "8", "9"}
              THEN "id" ELSE "login")

\* C15: refresh_attempts equals the number of token refreshes the instance
\* has completed, client-credentials grants of app mode and refresh-token
\* grants of user mode alike (as far as the history counter counts).
C15_AttemptsCountRefreshes == nRefresh < MaxCount => refresh_attempts = nRefresh

\* C16: the refresh protocol takes the token for valid exactly when the
\* validation endpoint answers with status 200: it then retries the endpoint
\* without a token request, and after every other status (401 or not) it sends
\* a token request. A validation response with the message "missing
\* authorization token" ends the dispatch with an error: no token request, no
\* retry, and access_token, refresh_token and refresh_attempts as they were.
C16_ValidIffStatus200 ==
    [][\A c \in Calls :
          (Handles(c, "val_wait", "validate") /\ Parsed(last'.resp))
          => IF last'.resp.message = "missing authorization token"
             THEN /\ last'.outcome = "error"
                  /\ last'.sent = <<>>
                  /\ calls'[c].pc = "done"
                  /\ nRefresh' = nRefresh
                  /\ CredentialsUnchanged
             ELSE /\ last'.resp.status = 200
                     <=> (last'.sent = <<"GET">> /\ calls'[c].nTok = calls[c].nTok)
                  /\ last'.resp.status # 200
                     <=> (/\ last'.sent \in {<<"TOKEN_CC">>, <<"TOKEN_RT">>}
                          /\ calls'[c].pc \in {"app_wait", "tok_wait"})]_vars

\* A status other than 200 and 401 has sent the dispatch on to the token
\* endpoint.
C16_Witness ==
    /\ last.op = "validate"
    /\ Parsed(last.resp)
    /\ last.resp.status = 500
    /\ last.resp.message # "missing authorization token"
    /\ last.sent = <<"TOKEN_RT">>
    /\ calls[last.call].pc = "tok_wait"

\* C17: a POST dispatch that receives status 401 (in a body its parsing
\* accepts, with an "error" listener registered) goes on to refresh the token:
\* it sends a validation or token request and stays in flight for the repeated
\* POST. One that receives any other status >= 400 emits "error", sends
\* nothing, and leaves access_token, refresh_token and refresh_attempts as
\* they were.
C17_PostRefreshesOn401 ==
    [][\A c \in Calls :
          (/\ Handles(c, "post_wait", "post")
           /\ last'.resp.net = "ok"
           /\ last'.resp.form = "nested"
           /\ last'.resp.status >= 400
           /\ errL)
          => IF last'.resp.status = 401
             THEN /\ Sends(last', TokenRequests \cup {"VALIDATE"})
                  /\ last'.outcome = "none"
                  /\ InFlight(calls'[c])
             ELSE /\ "error" \in last'.emitted
                  /\ last'.sent = <<>>
                  /\ nRefresh' = nRefresh
                  /\ CredentialsUnchanged]_vars

\* C18: nothing serialises the refreshes of a user-mode instance. While the
\* refresh-token requests of both dispatches are outstanding, the response to
\* either is handled as if it were alone: the other request stays outstanding,
\* and every token response that carries tokens replaces access_token and
\* refresh_token, so that the instance ends with the tokens of the response
\* handled last.
C18_LastTokenResponseWins ==
    [][\A c \in Calls :
          (/\ Handles(c, "tok_wait", "token")
           /\ last'.resp.net = "ok"
           /\ last'.resp.form = "object")
          => /\ \A d \in Calls \ {c} : calls'[d] = calls[d]
             /\ last'.resp.access_token \notin {None, ""}
                => access_token' = last'.resp.access_token
             /\ last'.resp.refresh_token \notin {None, ""}
                => refresh_token' = last'.resp.refresh_token]_vars

\* Both refresh-token requests were outstanding together; the response to one
\* has been handled after an earlier refresh and has replaced its tokens,
\* and the other request is outstanding still.
C18_Witness ==
    /\ ~isApp
    /\ last.op = "token"
    /\ last.resp.access_token = "a2"
    /\ last.resp.refresh_token = "r/1"
    /\ nRefresh = 2
    /\ access_token = "a2"
    /\ refresh_token = "r/1"
    /\ \E d \in Calls \ {last.call} : calls[d].pc = "tok_wait"

\* C19: refresh_attempts is at most 2 in every reachable state, also when the
\* steps of two dispatches interleave between the test of the counter at the
\* start of _refresh and its increment at the end.
C19_AttemptsAtMostTwo == refresh_attempts <= 2

\* C20: a refresh-token request carries, URI-encoded, the refresh_token the
\* instance holds when the request is sent, also when another refresh has
\* replaced refresh_token while this one waited for the validation response.
C20_RequestCarriesCurrentRefreshToken ==
    [][\A c \in Calls :
          (Handles(c, "val_wait", "validate") /\ last'.sent = <<"TOKEN_RT">>)
          => calls'[c].sentRT = encodeURIComponent(refresh_token)]_vars

\* C21: a step that emits "refresh", in app mode or user mode, has received
\* a token response that carries an access token, and leaves the instance
\* with that access token; a token response that carries no access token
\* makes the step emit no "refresh" and leave access_token as it was.
C21_RefreshCarriesNewToken ==
    [][\A c \in Calls :
          (/\ \/ Handles(c, "tok_wait", "token")
              \/ Handles(c, "app_wait", "apptoken")
           /\ last'.resp.net = "ok"
           /\ last'.outcome # "error")
          => LET payload == IF last'.op = "token"
                            THEN BodyField(last'.resp, last'.resp.access_token)
                            ELSE last'.resp.access_token
             IN  IF payload \notin {None, ""}
                 THEN "refresh" \in last'.emitted => access_token' = payload
                 ELSE /\ "refresh" \notin last'.emitted
                      /\ access_token' = access_token]_vars

====
